---------------------------- MODULE Spec2Model ----------------------------
(***************************************************************************)
(* A model of DEBATTLE-BACKEND/api/judge.py: the debate judge that gates a *)
(* transcript, asks a language-model service for a verdict, and then       *)
(* sanitizes, normalizes, validates, totals, rebalances and composes it.   *)
(*                                                                         *)
(* Numbers are kept in tenths (12.7 is 127, the int 40 is 400), so that    *)
(* float(), int() truncation and round(x, 1) are computed, not assumed.    *)
(* Texts are sequences of character-class tokens: "s" is a whitespace      *)
(* character, ".", "!" and "?" are themselves, any other token is a run of *)
(* characters that holds no sentence terminator and neither starts nor     *)
(* ends with whitespace.                                                   *)
(***************************************************************************)
EXTENDS Integers, Sequences, FiniteSets, TLC

VARIABLES
    pc,              \* position of main() in its sequence of steps
    transcript,      \* the transcript text, a sequence of lines
    response,        \* what the model service answered, as chat_ollama got it
    result,          \* the verdict object main() builds and mutates
    modelCalls,      \* number of invocations of chat_ollama
    validations,     \* number of invocations of jsonschema validate
    stages,          \* the pipeline functions called so far, in order
    output,          \* what main() has printed on stdout
    error,           \* the uncaught exception that ended the run, or "none"
    arg,             \* argument of a function applied on its own
    ret              \* value that function returned

vars == <<pc, transcript, response, result, modelCalls, validations, stages, output, error, arg, ret>>

(***************************************************************************)
(* Bounds of the model.                                                    *)
(***************************************************************************)
MaxLines == 3
MaxMoves == 5
MaxDiff == 60
MaxTotal == 350

(***************************************************************************)
(* JSON values as json.loads returns them.                                 *)
(***************************************************************************)
Missing == [t |-> "missing"]
Null == [t |-> "null"]
NaN == [t |-> "nan"]
PosInf == [t |-> "inf"]
NegInf == [t |-> "-inf"]
Num(tenths) == [t |-> "num", v |-> tenths]
IntV(n) == [t |-> "num", v |-> 10 * n]
Str(chars) == [t |-> "str", s |-> chars]
BoolV(b) == [t |-> "bool", b |-> b]
\* a string of n characters whose content does not matter
StrOfLen(n) == [t |-> "strlen", n |-> n]

StrLen(j) == IF j.t = "strlen" THEN j.n ELSE Len(j.s)

SPEECH_SLOTS == <<"First Speech", "Second Speech", "Third Speech", "Reply">>

Sides == {"affirmative", "negative"}
Speakers == {"speaker1", "speaker2", "speaker3"}
Entries == {"speaker1", "speaker2", "speaker3", "reply"}
Fields == {"matter", "manner", "method"}

Abs(n) == IF n < 0 THEN -n ELSE n

(***************************************************************************)
(* margin_label                                                            *)
(***************************************************************************)
\* variant: the label read off the signed difference
margin_label_unsigned(diff) ==
    IF diff <= 2 THEN "very close"
    ELSE IF diff <= 5 THEN "close but clear"
    ELSE IF diff <= 10 THEN "clear win"
    ELSE IF diff <= 20 THEN "dominant win"
    ELSE "overwhelming win"

margin_label(diff) ==
    LET d == Abs(diff)
    IN  IF d <= 2 THEN "very close"
        ELSE IF d <= 5 THEN "close but clear"
        ELSE IF d <= 10 THEN "clear win"
        ELSE IF d <= 20 THEN "dominant win"
        ELSE "overwhelming win"

(***************************************************************************)
(* JUDGE_SCHEMA, definitions speaker and reply: the declared maxima.       *)
(***************************************************************************)
SchemaMax(entry, field) ==
    IF entry = "reply"
    THEN CASE field = "matter" -> 20
           [] field = "manner" -> 15
           [] field = "method" -> 15
    ELSE CASE field = "matter" -> 40
           [] field = "manner" -> 30
           [] field = "method" -> 30

(***************************************************************************)
(* _clip: max(lo, min(hi, float(v))), lo on any exception.                 *)
(* A float is [c |-> "fin", v |-> tenths], or c is "nan", "inf", "-inf".   *)
(***************************************************************************)
Fin(tenths) == [c |-> "fin", v |-> tenths]
NoFloat == [c |-> "raise"]

\* float() of the strings a response carries in the model
ParseFloat(chars) ==
    CASE chars = "12.5" -> Fin(125)
      [] chars = " 7 " -> Fin(70)
      [] chars = "-3" -> Fin(-30)
      [] chars = "1e3" -> Fin(10000)
      [] chars = "nan" -> [c |-> "nan"]
      [] chars = "Infinity" -> [c |-> "inf"]
      [] OTHER -> NoFloat

\* float(v): TypeError for None, a list or a dict, ValueError for a string
\* that is no number, OverflowError for an int beyond the float range
FloatOf(j) ==
    CASE j.t = "num" -> Fin(j.v)
      [] j.t = "nan" -> [c |-> "nan"]
      [] j.t = "inf" -> [c |-> "inf"]
      [] j.t = "-inf" -> [c |-> "-inf"]
      [] j.t = "bool" -> Fin(IF j.b THEN 10 ELSE 0)
      [] j.t = "str" -> ParseFloat(j.s)
      [] OTHER -> NoFloat

\* a < b on floats; every comparison with nan is false
FloatLess(a, b) ==
    CASE a.c = "nan" \/ b.c = "nan" -> FALSE
      [] a.c = "-inf" -> b.c # "-inf"
      [] a.c = "inf" -> FALSE
      [] b.c = "inf" -> TRUE
      [] b.c = "-inf" -> FALSE
      [] OTHER -> a.v < b.v

\* Python's two-argument min and max keep the first argument unless the
\* second compares strictly below (above) it
PyMin(a, b) == IF FloatLess(b, a) THEN b ELSE a
PyMax(a, b) == IF FloatLess(a, b) THEN b ELSE a

\* variant: the upper bound is not applied
clip_no_upper(v, lo, hi) ==
    LET f == FloatOf(v)
    IN  IF f.c = "raise" THEN Fin(10 * lo)
        ELSE PyMax(Fin(10 * lo), f)

clip(v, lo, hi) ==
    LET f == FloatOf(v)
    IN  IF f.c = "raise" THEN Fin(10 * lo)
        ELSE PyMax(Fin(10 * lo), PyMin(Fin(10 * hi), f))

\* int() of a finite float truncates toward zero; the result is in tenths
IntOfFloat(f) ==
    IF f.v >= 0 THEN 10 * (f.v \div 10) ELSE -(10 * ((-f.v) \div 10))


(***************************************************************************)
(* The scores object.  A container is [k |-> "obj", ...its keys...], or    *)
(* k is "missing" (the key is absent) or the JSON type found in its place. *)
(***************************************************************************)
EmptyEntry == [k |-> "obj", matter |-> Missing, manner |-> Missing,
               method |-> Missing, notes |-> Missing]
EmptySide == [k |-> "obj", speaker1 |-> [k |-> "missing"], speaker2 |-> [k |-> "missing"],
              speaker3 |-> [k |-> "missing"], reply |-> [k |-> "missing"]]
EmptyScores == [k |-> "obj", affirmative |-> [k |-> "missing"], negative |-> [k |-> "missing"]]

\* d.get(key, {}): the default only replaces an absent key
GetDict(c, empty) == IF c.k = "missing" THEN empty ELSE c

\* s.get(field, 0)
GetField(s, field) == IF s[field].t = "missing" THEN IntV(0) ELSE s[field]

(***************************************************************************)
(* enforce_ranges                                                          *)
(***************************************************************************)
\* variant: the entry is built anew from the three scores
clamp_speaker_fresh(s) ==
    [EmptyEntry EXCEPT !.matter = Num(IntOfFloat(clip(GetField(s, "matter"), 0, 40))),
                       !.manner = Num(IntOfFloat(clip(GetField(s, "manner"), 0, 30))),
                       !.method = Num(IntOfFloat(clip(GetField(s, "method"), 0, 30)))]

clamp_speaker(s) ==
    [s EXCEPT !.matter = Num(IntOfFloat(clip(GetField(s, "matter"), 0, 40))),
              !.manner = Num(IntOfFloat(clip(GetField(s, "manner"), 0, 30))),
              !.method = Num(IntOfFloat(clip(GetField(s, "method"), 0, 30)))]

clamp_reply(rep) ==
    [rep EXCEPT !.matter = Num(IntOfFloat(clip(GetField(rep, "matter"), 0, 20))),
                !.manner = Num(IntOfFloat(clip(GetField(rep, "manner"), 0, 15))),
                !.method = Num(IntOfFloat(clip(GetField(rep, "method"), 0, 15)))]

\* .get on a value that is no dict raises AttributeError
enforce_ranges_raises(r) ==
    /\ r.k = "obj"
    /\ LET scores == GetDict(r.scores, EmptyScores)
       IN  \/ scores.k # "obj"
           \/ \E side \in Sides :
                LET side_obj == GetDict(scores[side], EmptySide)
                IN  \/ side_obj.k # "obj"
                    \/ \E e \in Entries : GetDict(side_obj[e], EmptyEntry).k # "obj"

clamp_side(side_obj) ==
    [side_obj EXCEPT !.speaker1 = clamp_speaker(GetDict(side_obj.speaker1, EmptyEntry)),
                     !.speaker2 = clamp_speaker(GetDict(side_obj.speaker2, EmptyEntry)),
                     !.speaker3 = clamp_speaker(GetDict(side_obj.speaker3, EmptyEntry)),
                     !.reply = clamp_reply(GetDict(side_obj.reply, EmptyEntry))]

\* defined when enforce_ranges_raises(r) is false
enforce_ranges(r) ==
    IF r.k # "obj" THEN r
    ELSE LET scores == GetDict(r.scores, EmptyScores)
         IN  [r EXCEPT !.scores =
                [scores EXCEPT !.affirmative = clamp_side(GetDict(scores.affirmative, EmptySide)),
                               !.negative = clamp_side(GetDict(scores.negative, EmptySide))]]

(***************************************************************************)
(* weighted_total_speaker, weighted_total_reply, compute_totals,           *)
(* scale_to_100                                                            *)
(***************************************************************************)
\* int(x) of a number, as an integer
PyInt(j) == IntOfFloat(Fin(j.v)) \div 10

weighted_total_speaker(sp) ==
    PyInt(GetField(sp, "matter")) + PyInt(GetField(sp, "manner")) + PyInt(GetField(sp, "method"))

weighted_total_reply(rep) ==
    PyInt(GetField(rep, "matter")) + PyInt(GetField(rep, "manner")) + PyInt(GetField(rep, "method"))

side_total(s) ==
    weighted_total_speaker(s.speaker1) + weighted_total_speaker(s.speaker2)
        + weighted_total_speaker(s.speaker3) + weighted_total_reply(s.reply)

compute_totals(r) ==
    [affirmative |-> side_total(r.scores.affirmative),
     negative |-> side_total(r.scores.negative)]

\* variant: the scaled total truncated to a tenth instead of rounded
scale_truncating(raw_total) == (20 * raw_total) \div 7

\* round(float(raw_total) / 3.5, 1) in tenths: the integer nearest to
\* raw_total * 20 / 7, which is never half way between two integers
scale_to_100(raw_total) == (40 * raw_total + 7) \div 14

\* str() of a float that round(x, 1) returned, from its tenths
FormatTenths(tenths) == ToString(tenths \div 10) \o "." \o ToString(tenths % 10)

(***************************************************************************)
(* Texts: str.strip, the sentence count of _ensure_min_sentences.          *)
(***************************************************************************)
Text(toks) == [t |-> "text", toks |-> toks]

RECURSIVE LStrip(_)
LStrip(toks) ==
    IF toks # <<>> /\ Head(toks) = "s" THEN LStrip(Tail(toks)) ELSE toks

RECURSIVE RStrip(_)
RStrip(toks) ==
    IF toks # <<>> /\ toks[Len(toks)] = "s"
    THEN RStrip(SubSeq(toks, 1, Len(toks) - 1))
    ELSE toks

Strip(toks) == RStrip(LStrip(toks))

\* sum(1 for s in t.replace("!", ".").replace("?", ".").split(".") if s.strip()):
\* the number of segments between terminators that hold a non-whitespace character
RECURSIVE CountSegments(_, _)
CountSegments(toks, open) ==
    IF toks = <<>> THEN (IF open THEN 1 ELSE 0)
    ELSE IF Head(toks) \in {".", "!", "?"}
         THEN (IF open THEN 1 ELSE 0) + CountSegments(Tail(toks), FALSE)
         ELSE CountSegments(Tail(toks), open \/ Head(toks) # "s")

additions ==
    << <<"They framed the weighing early and attempted to collapse the round onto the decisive clashes", ".">>,
       <<"Comparative analysis connected claims to explicit impacts, although some links could be clearer", ".">>,
       <<"Time allocation and signposting generally supported flow and judge comprehension", ".">> >>

\* while count < min_sents and additions: t = (t + " " + additions.pop(0)).strip()
RECURSIVE AppendAdditions(_, _, _, _)
AppendAdditions(t, count, min_sents, adds) ==
    IF count < min_sents /\ adds # <<>>
    THEN AppendAdditions(Strip(t \o <<"s">> \o Head(adds)), count + 1, min_sents, Tail(adds))
    ELSE t

ensure_min_sentences(text, min_sents) ==
    LET t == Strip(text)
        count == CountSegments(t, FALSE)
    IN  IF count >= min_sents THEN t
        ELSE AppendAdditions(t, count, min_sents, additions)

overview_fallback(side_name) ==
    ensure_min_sentences(
        <<"The " \o side_name \o " team presented a coherent case with clear signposting and attempted to control the weighing mechanism", ".", "s",
          "They engaged core clashes, extending key material while addressing opponent pressure", ".", "s",
          "Evidence use was directionally sound, though several claims would benefit from tighter warrants and explicit impact calculus tied to feasibility, risk, and timeframe", ".">>,
        4)

improvements_fallback(side_name) ==
    ensure_min_sentences(
        <<side_name \o " can improve by tightening comparative weighing earlier, frontloading the round-winning mechanism, and backing asserted links with a concrete warrant (study, example, or model)", ".", "s",
          "They should also avoid assertion-by-repetition by collapsing onto the strongest contention and making explicit, line-by-line resolution of the main clashes", ".">>,
        4)

expand_extra(label) ==
    CASE label = "brilliant" ->
           <<"s", "It combined clean warranting with timing that flipped a contested issue", ".",
             "s", "The downstream impact shaped the judge's weighing", ".">>
      [] label = "great" ->
           <<"s", "It advanced the team's win condition with precise comparative work", ".",
             "s", "The explanation connected claim to impact without new matter", ".">>
      [] label = "good" ->
           <<"s", "Solid structure and relevance maintained flow control", ".",
             "s", "A clearer explicit impact link could make it round-deciding", ".">>
      [] label = "inaccuracy" ->
           <<"s", "A factual/comparative slip reduced credibility and opened room for opponent leverage", ".",
             "s", "Correct sourcing and line-by-line precision would fix this", ".">>
      [] OTHER ->
           <<"s", "Dropping or mishandling a critical line ceded weighing to the opponent", ".",
             "s", "Always address the win-condition clash before extending new material", ".">>

expand_move(label, seed) ==
    ensure_min_sentences(
        (IF seed = <<>> THEN <<"A notable contribution occurred at a pivotal moment", ".">> ELSE seed)
            \o expand_extra(label),
        2)

(***************************************************************************)
(* Truthiness and the "(x or default).strip()" idiom.                      *)
(***************************************************************************)
\* not x
Falsy(j) ==
    \/ j.t \in {"missing", "null"}
    \/ j.t = "text" /\ j.toks = <<>>
    \/ j.t = "str" /\ j.s = ""
    \/ j.t = "num" /\ j.v = 0
    \/ j.t = "bool" /\ ~j.b

\* (x or "").strip() and (x or "good").lower() raise AttributeError when x
\* is truthy and no string
RaisesStrMethod(j) == ~Falsy(j) /\ j.t \notin {"text", "str"}

\* (x or "") for a text
OrEmptyText(j) == IF Falsy(j) THEN <<>> ELSE j.toks

\* str.lower and str.strip of the label and time strings a response carries
Lower(chars) ==
    CASE chars = "GREAT" -> "great"
      [] chars = "Blunder" -> "blunder"
      [] OTHER -> chars

StripStr(chars) ==
    CASE chars = " 02:15 " -> "02:15"
      [] OTHER -> chars

LABELS == {"brilliant", "great", "good", "inaccuracy", "blunder"}

(***************************************************************************)
(* _assign_speech_slots                                                    *)
(***************************************************************************)
PadMove ==
    [k |-> "obj", time |-> Str(""), label |-> Str("good"),
     explanation |-> Text(<<"A generally solid contribution with clear structure and relevance", ".">>)]

RECURSIVE PadToFour(_)
PadToFour(moves) ==
    IF Len(moves) < 4 THEN PadToFour(Append(moves, PadMove)) ELSE moves

\* variant: the list cut one item short
assign_speech_slots_trim3(moves) ==
    LET padded == PadToFour(moves)
        trimmed == IF Len(padded) > 3 THEN SubSeq(padded, 1, 3) ELSE padded
    IN  [i \in 1..Len(trimmed) |-> [trimmed[i] EXCEPT !.time = Str(SPEECH_SLOTS[i])]]

assign_speech_slots(moves) ==
    LET padded == PadToFour(moves)
        trimmed == IF Len(padded) > 4 THEN SubSeq(padded, 1, 4) ELSE padded
    IN  [i \in 1..Len(trimmed) |-> [trimmed[i] EXCEPT !.time = Str(SPEECH_SLOTS[i])]]

(***************************************************************************)
(* ensure_analysis_defaults                                                *)
(***************************************************************************)
EmptyBlob == [k |-> "obj", overview |-> Missing, improvements |-> Missing,
              notable_moves |-> [k |-> "missing"]]

\* x or {} / x or []: an absent key, None and an empty container are falsy
\* (a container of kind "list" always carries its items)
FalsyContainer(c) == c.k \in {"missing", "null"} \/ (c.k = "list" /\ c.items = <<>>)

MoveRaises(m) ==
    \/ m.k # "obj"
    \/ RaisesStrMethod(m.label)
    \/ RaisesStrMethod(m.explanation)
    \/ RaisesStrMethod(m.time)

BlobRaises(blob) ==
    \/ RaisesStrMethod(blob.overview)
    \/ RaisesStrMethod(blob.improvements)
    \/ /\ ~FalsyContainer(blob.notable_moves)
       /\ \/ blob.notable_moves.k # "list"
          \/ \E i \in 1..Len(blob.notable_moves.items) : MoveRaises(blob.notable_moves.items[i])

\* the analysis dict the loop works on (line 298 replaces a missing or
\* non-dict analysis by {})
AnalysisDict(r) ==
    IF r.analysis.k = "obj" THEN r.analysis
    ELSE [k |-> "obj", affirmative |-> [k |-> "missing"], negative |-> [k |-> "missing"]]

ensure_analysis_defaults_raises(r) ==
    \/ r.k # "obj"
    \/ \E side \in Sides :
         LET b == AnalysisDict(r)[side]
         IN  IF FalsyContainer(b) THEN FALSE
             ELSE b.k # "obj" \/ BlobRaises(b)

normalize_move(m) ==
    LET raw == IF Falsy(m.label) THEN "good" ELSE Lower(m.label.s)
        lbl == IF raw \notin LABELS THEN "good" ELSE raw
        exp == expand_move(lbl, Strip(OrEmptyText(m.explanation)))
    IN  [k |-> "obj",
         time |-> Str(StripStr(IF Falsy(m.time) THEN "" ELSE m.time.s)),
         label |-> Str(lbl),
         explanation |-> Text(exp)]

DefaultMove ==
    [k |-> "obj", time |-> Str(""), label |-> Str("good"),
     explanation |-> Text(expand_move("good",
         <<"A generally solid contribution with clear structure and relevance", ".">>))]

RECURSIVE FillToFour(_)
FillToFour(norm) ==
    IF Len(norm) < 4 THEN FillToFour(Append(norm, DefaultMove)) ELSE norm

normalize_text(v, fallback) ==
    LET t == Strip(OrEmptyText(v))
    IN  IF t = <<>> THEN fallback ELSE ensure_min_sentences(t, 4)

normalize_blob(b0, side_name) ==
    LET blob == IF FalsyContainer(b0) THEN EmptyBlob ELSE b0
        moves == IF FalsyContainer(blob.notable_moves) THEN <<>> ELSE blob.notable_moves.items
        norm == [i \in 1..Len(moves) |-> normalize_move(moves[i])]
    IN  [blob EXCEPT
            !.overview = Text(normalize_text(blob.overview, overview_fallback(side_name))),
            !.improvements = Text(normalize_text(blob.improvements, improvements_fallback(side_name))),
            !.notable_moves = [k |-> "list", items |-> assign_speech_slots(FillToFour(norm))]]

\* defined when ensure_analysis_defaults_raises(r) is false
ensure_analysis_defaults(r) ==
    LET a == AnalysisDict(r)
    IN  [r EXCEPT !.analysis =
            [a EXCEPT !.affirmative = normalize_blob(a.affirmative, "AFFIRMATIVE"),
                      !.negative = normalize_blob(a.negative, "NEGATIVE")]]

(***************************************************************************)
(* rebalance_notable_moves                                                 *)
(***************************************************************************)
\* variant: the two target distributions exchanged
target_swapped(want_positive_majority) ==
    IF want_positive_majority
    THEN <<"inaccuracy", "blunder", "good", "great">>
    ELSE <<"brilliant", "great", "good", "inaccuracy">>

target(want_positive_majority) ==
    IF want_positive_majority
    THEN <<"brilliant", "great", "good", "inaccuracy">>
    ELSE <<"inaccuracy", "blunder", "good", "great">>

\* variant: one label is moved to the target per call, the others are kept
force_distribution_one_step(moves, want_positive_majority) ==
    LET tg == target(want_positive_majority)
        off == {i \in 1..4 : i <= Len(moves) /\ moves[i].label.s # tg[i]}
        first == IF off = {} THEN 0 ELSE CHOOSE i \in off : \A j \in off : i <= j
    IN  [i \in 1..4 |->
            [k |-> "obj",
             time |-> Str(SPEECH_SLOTS[i]),
             label |-> IF i <= Len(moves) /\ i # first THEN moves[i].label ELSE Str(tg[i]),
             explanation |-> Text(expand_move(tg[i],
                 IF i <= Len(moves) THEN moves[i].explanation.toks ELSE <<>>))]]

force_distribution(moves, want_positive_majority) ==
    LET tg == target(want_positive_majority)
    IN  [i \in 1..4 |->
            [k |-> "obj",
             time |-> Str(SPEECH_SLOTS[i]),
             label |-> Str(tg[i]),
             explanation |-> Text(expand_move(tg[i],
                 IF i <= Len(moves) THEN moves[i].explanation.toks ELSE <<>>))]]

\* variant: on a TIE both sides count as winners
is_winner_or_tie(winner, side) ==
    \/ winner = "TIE"
    \/ winner = "AFFIRMATIVE" /\ side = "affirmative"
    \/ winner = "NEGATIVE" /\ side = "negative"

is_winner(winner, side) ==
    /\ winner # "TIE"
    /\ \/ winner = "AFFIRMATIVE" /\ side = "affirmative"
       \/ winner = "NEGATIVE" /\ side = "negative"

rebalance_side(blob, winner, side) ==
    LET moves == assign_speech_slots(blob.notable_moves.items)
        new == force_distribution(moves, is_winner(winner, side))
    IN  [blob EXCEPT !.notable_moves = [k |-> "list", items |-> assign_speech_slots(new)]]

rebalance_notable_moves(r, winner) ==
    [r EXCEPT !.analysis.affirmative = rebalance_side(r.analysis.affirmative, winner, "affirmative"),
              !.analysis.negative = rebalance_side(r.analysis.negative, winner, "negative")]

(***************************************************************************)
(* validate(instance=result, schema=JUDGE_SCHEMA)                          *)
(***************************************************************************)
FORMATS == {"Policy", "BP", "WSDC", "Lincoln-Douglas", "Other"}
WINNERS == {"AFFIRMATIVE", "NEGATIVE", "TIE"}

IsStringLike(j) == j.t \in {"text", "str", "strlen"}

\* {"type": "number", "minimum": lo, "maximum": hi}; nan is a number that
\* compares neither below the minimum nor above the maximum
ValidNumber(j, lo, hi) ==
    CASE j.t = "num" -> 10 * lo <= j.v /\ j.v <= 10 * hi
      [] j.t = "nan" -> TRUE
      [] OTHER -> FALSE

ValidEntry(e, name) ==
    /\ e.k = "obj"
    /\ \A f \in Fields : ValidNumber(e[f], 0, SchemaMax(name, f))
    /\ e.notes.t = "missing" \/ IsStringLike(e.notes)

ValidSide(s) == s.k = "obj" /\ \A e \in Entries : ValidEntry(s[e], e)

ValidScores(sc) == sc.k = "obj" /\ \A side \in Sides : ValidSide(sc[side])

ValidMeta(m) ==
    /\ m.k = "obj"
    /\ m.format.t = "str" /\ m.format.s \in FORMATS
    /\ IsStringLike(m.rules)

ValidWinner(w) == w.t = "str" /\ w.s \in WINNERS

ValidRationale(ra) ==
    /\ ra.k = "obj"
    /\ IsStringLike(ra.summary) /\ StrLen(ra.summary) <= 700
    /\ IsStringLike(ra.why_winner) /\ StrLen(ra.why_winner) <= 700
    /\ ra.key_clashes.t = "array" /\ ra.key_clashes.strs /\ ra.key_clashes.n <= 6

ValidMove(m) ==
    /\ m.k = "obj"
    /\ m.label.t = "str" /\ m.label.s \in LABELS
    /\ IsStringLike(m.explanation)
    /\ m.time.t = "missing" \/ IsStringLike(m.time)

ValidBlob(b) ==
    /\ b.k = "obj"
    /\ IsStringLike(b.overview)
    /\ IsStringLike(b.improvements)
    /\ b.notable_moves.k = "list"
    /\ \A i \in 1..Len(b.notable_moves.items) : ValidMove(b.notable_moves.items[i])

ValidAnalysis(a) == a.k = "obj" /\ \A side \in Sides : ValidBlob(a[side])

Validate(r) ==
    /\ r.k = "obj"
    /\ ValidMeta(r.meta)
    /\ ValidScores(r.scores)
    /\ ValidWinner(r.winner)
    /\ ValidRationale(r.rationale)
    /\ ValidAnalysis(r.analysis)

(***************************************************************************)
(* The transcript.  A line is [kind, n]: n characters of speech after      *)
(*   "tagged"   a tag "[MM:SS AFF-N]" at the start of the line,            *)
(*   "open"     a tag that lacks its closing bracket, "[MM:SS AFF-N",      *)
(*   "indented" a blank and then a tag,                                    *)
(*   "plain"    nothing (the line carries no tag),                         *)
(* and "blank" is a line of whitespace.  A line is a sequence of runs      *)
(* [c, n]: n characters of class "head" (the text "[MM:SS AFF-" that the   *)
(* pattern of line 194 matches), "x" (neither whitespace nor a bracket),   *)
(* "sp", "nl" or "]".                                                      *)
(***************************************************************************)
Run(c, n) == [c |-> c, n |-> n]

TagRuns == <<Run("head", 11), Run("x", 1), Run("]", 1)>>

LineRuns(line) ==
    CASE line.kind = "tagged" ->
           TagRuns \o (IF line.n > 0 THEN <<Run("sp", 1), Run("x", line.n)>> ELSE <<>>)
      [] line.kind = "open" ->
           <<Run("head", 11), Run("x", 1), Run("sp", 1), Run("x", line.n)>>
      [] line.kind = "indented" ->
           <<Run("sp", 1)>> \o TagRuns \o <<Run("sp", 1), Run("x", line.n)>>
      [] line.kind = "plain" -> <<Run("x", line.n)>>
      [] OTHER -> <<Run("sp", 2)>>

IsSpace(run) == run.c \in {"sp", "nl"}

\* ln.strip() is not empty
NonBlank(runs) == \E i \in 1..Len(runs) : ~IsSpace(runs[i])

\* re.match(r"\[\d{2}:\d{2}\s+(AFF|NEG)-", ln)
MatchesTag(runs) == runs # <<>> /\ Head(runs).c = "head"

\* [ln for ln in lines if ln.strip()]
RECURSIVE NonBlankLines(_)
NonBlankLines(lines) ==
    IF lines = <<>> THEN <<>>
    ELSE (IF NonBlank(Head(lines)) THEN <<Head(lines)>> ELSE <<>>) \o NonBlankLines(Tail(lines))

\* [ln for ln in lines if re.match(...)]
RECURSIVE TaggedLines(_)
TaggedLines(lines) ==
    IF lines = <<>> THEN <<>>
    ELSE (IF MatchesTag(Head(lines)) THEN <<Head(lines)>> ELSE <<>>) \o TaggedLines(Tail(lines))

\* "\n".join(lines)
RECURSIVE JoinLines(_)
JoinLines(lines) ==
    IF lines = <<>> THEN <<>>
    ELSE IF Len(lines) = 1 THEN Head(lines)
    ELSE Head(lines) \o <<Run("nl", 1)>> \o JoinLines(Tail(lines))

\* position of the first "]" in runs, 0 when there is none
RECURSIVE FirstClose(_, _)
FirstClose(runs, i) ==
    IF i > Len(runs) THEN 0
    ELSE IF runs[i].c = "]" THEN i
    ELSE FirstClose(runs, i + 1)

RECURSIVE DropSpace(_)
DropSpace(runs) ==
    IF runs # <<>> /\ IsSpace(Head(runs)) THEN DropSpace(Tail(runs)) ELSE runs

\* re.sub(r"\[\d{2}:\d{2}\s+(AFF|NEG)-[^\]]+\]\s*", "", text): from a tag head,
\* [^\]]+ runs over anything, line breaks included, up to the first "]"
RECURSIVE SubTags(_)
SubTags(runs) ==
    IF runs = <<>> THEN <<>>
    ELSE LET j == FirstClose(runs, 2)
         IN  IF Head(runs).c = "head" /\ j >= 3
             THEN SubTags(DropSpace(SubSeq(runs, j + 1, Len(runs))))
             ELSE <<Head(runs)>> \o SubTags(Tail(runs))

RECURSIVE RStripRuns(_)
RStripRuns(runs) ==
    IF runs # <<>> /\ IsSpace(runs[Len(runs)])
    THEN RStripRuns(SubSeq(runs, 1, Len(runs) - 1))
    ELSE runs

RECURSIVE RunsLen(_)
RunsLen(runs) == IF runs = <<>> THEN 0 ELSE Head(runs).n + RunsLen(Tail(runs))

extract_payload_text(runs) == RStripRuns(DropSpace(SubTags(runs)))

LOW_CONTENT_SPEECH_MIN == 3
LOW_CONTENT_CHAR_MIN == 120

TextLines(t) == [i \in 1..Len(t) |-> LineRuns(t[i])]

speech_lines(t) == TaggedLines(NonBlankLines(TextLines(t)))

is_low_content(t) ==
    IF NonBlankLines(TextLines(t)) = <<>> THEN TRUE
    ELSE LET payload == extract_payload_text(JoinLines(speech_lines(t)))
         IN  \/ Len(speech_lines(t)) < LOW_CONTENT_SPEECH_MIN
             \/ RunsLen(payload) < LOW_CONTENT_CHAR_MIN

(***************************************************************************)
(* empty_result                                                            *)
(***************************************************************************)
NoResult == [k |-> "none"]
NoReply == [outcome |-> "none"]
NoOutput == [lines |-> <<>>, analysis |-> [k |-> "missing"]]

ZeroEntry == [k |-> "obj", matter |-> IntV(0), manner |-> IntV(0), method |-> IntV(0),
              notes |-> Str("")]
ZeroSide == [k |-> "obj", speaker1 |-> ZeroEntry, speaker2 |-> ZeroEntry,
             speaker3 |-> ZeroEntry, reply |-> ZeroEntry]

empty_result ==
    [k |-> "obj",
     meta |-> [k |-> "obj", format |-> Str("Policy"),
               rules |-> Str("No new matter in 3rd speeches; reply is comparative only.")],
     scores |-> [k |-> "obj", affirmative |-> ZeroSide, negative |-> ZeroSide],
     winner |-> Str("TIE"),
     rationale |-> [k |-> "obj",
                    summary |-> Str("Insufficient material: there were not enough substantive speeches to evaluate the round."),
                    why_winner |-> Str("No winner - both teams provided insufficient content."),
                    key_clashes |-> [t |-> "array", n |-> 0, strs |-> TRUE]],
     analysis |-> [k |-> "obj",
        affirmative |-> [k |-> "obj",
            overview |-> Text(<<"No substantive speeches recorded for AFF", ".">>),
            improvements |-> Text(<<"Deliver required speeches with claims, warrants, and comparison", ".">>),
            notable_moves |-> [k |-> "list", items |-> <<>>]],
        negative |-> [k |-> "obj",
            overview |-> Text(<<"No substantive speeches recorded for NEG", ".">>),
            improvements |-> Text(<<"Deliver required speeches with claims, warrants, and comparison", ".">>),
            notable_moves |-> [k |-> "list", items |-> <<>>]]],
     totals |-> [k |-> "missing"],
     final_statement |-> Missing]

(***************************************************************************)
(* main: the final statement and the printed report                        *)
(***************************************************************************)
\* variant: the scaled totals printed without their decimal
tie_statement_unformatted(aff_scaled, neg_scaled) ==
    "The round is a TIE. Final (/100): AFF " \o ToString(aff_scaled \div 10)
        \o " - NEG " \o ToString(neg_scaled \div 10) \o "."

tie_statement(aff_scaled, neg_scaled) ==
    "The round is a TIE. Final (/100): AFF " \o FormatTenths(aff_scaled)
        \o " - NEG " \o FormatTenths(neg_scaled) \o "."

\* variant: the gap scaled from the raw difference
win_statement_raw_gap(winner_side, diff_scaled, diff_raw, aff_scaled, neg_scaled) ==
    "Congratulations, Team " \o winner_side \o "! You win by "
        \o FormatTenths(scale_to_100(Abs(diff_raw)))
        \o " points (" \o margin_label(diff_raw) \o "). Final (/100): AFF "
        \o FormatTenths(aff_scaled) \o " - NEG " \o FormatTenths(neg_scaled) \o "."

win_statement(winner_side, diff_scaled, diff_raw, aff_scaled, neg_scaled) ==
    "Congratulations, Team " \o winner_side \o "! You win by " \o FormatTenths(diff_scaled)
        \o " points (" \o margin_label(diff_raw) \o "). Final (/100): AFF "
        \o FormatTenths(aff_scaled) \o " - NEG " \o FormatTenths(neg_scaled) \o "."

\* variant: the sentence chosen by the winner field alone
final_statement_by_winner(r) ==
    LET aff_total == r.totals.affirmative
        neg_total == r.totals.negative
        aff_scaled == scale_to_100(aff_total)
        neg_scaled == scale_to_100(neg_total)
        diff_raw == aff_total - neg_total
        diff_scaled == Abs(aff_scaled - neg_scaled)
    IN  IF r.winner = Str("TIE") THEN tie_statement(aff_scaled, neg_scaled)
        ELSE win_statement(r.winner.s, diff_scaled, diff_raw, aff_scaled, neg_scaled)

\* step 7 of main, lines 534-546
final_statement(r) ==
    LET aff_total == r.totals.affirmative
        neg_total == r.totals.negative
        aff_scaled == scale_to_100(aff_total)
        neg_scaled == scale_to_100(neg_total)
        diff_raw == aff_total - neg_total
        \* round(abs(aff_scaled - neg_scaled), 1) of two floats that are tenths
        diff_scaled == Abs(aff_scaled - neg_scaled)
    IN  IF diff_raw = 0 THEN tie_statement(aff_scaled, neg_scaled)
        ELSE win_statement(IF diff_raw > 0 THEN "AFFIRMATIVE" ELSE "NEGATIVE",
                           diff_scaled, diff_raw, aff_scaled, neg_scaled)

\* the three score lines and the per-team analysis main prints
report(r, aff_scaled, neg_scaled) ==
    [lines |-> <<"Team AFFIRMATIVE: " \o FormatTenths(aff_scaled) \o "/100",
                 "Team NEGATIVE:   " \o FormatTenths(neg_scaled) \o "/100",
                 "Final verdict: " \o r.final_statement.s>>,
     analysis |-> r.analysis]

\* variant: a declared TIE is kept whatever the totals
tie_break_keep(r, totals) == r.winner

\* step 5 of main, lines 517-520
tie_break(r, totals) ==
    IF r.winner = Str("TIE")
    THEN LET diff == totals.affirmative - totals.negative
         IN  IF Abs(diff) >= 1
             THEN Str(IF diff > 0 THEN "AFFIRMATIVE" ELSE "NEGATIVE")
             ELSE r.winner
    ELSE r.winner

(***************************************************************************)
(* Inputs: the transcripts main may read.                                  *)
(***************************************************************************)
Line(kind, n) == [kind |-> kind, n |-> n]

\* DEFAULT_TRANSCRIPT(): eight tagged lines
DEFAULT_TRANSCRIPT ==
    <<Line("tagged", 80), Line("tagged", 93), Line("tagged", 76), Line("tagged", 76),
      Line("tagged", 76), Line("tagged", 41), Line("tagged", 59), Line("tagged", 63)>>

LineSet ==
    {Line("tagged", n) : n \in {0, 39, 40, 60, 120}}
        \cup {Line("open", 40), Line("open", 120), Line("plain", 120),
              Line("indented", 120), Line("blank", 0)}

SeqsUpTo(S, n) == UNION {[1..m -> S] : m \in 0..n}

\* every text of at most MaxLines lines
AllTranscripts == SeqsUpTo(LineSet, MaxLines)

\* the texts the whole pipeline is run on
MainTranscripts ==
    {DEFAULT_TRANSCRIPT,
     <<>>,
     <<Line("blank", 0)>>,
     <<Line("tagged", 20)>>,
     <<Line("tagged", 120), Line("tagged", 120)>>,
     <<Line("tagged", 30), Line("tagged", 30), Line("tagged", 30)>>,
     <<Line("plain", 120), Line("plain", 120), Line("plain", 120)>>}

(***************************************************************************)
(* Inputs: what the model service answers.  A reply is a transport         *)
(* failure, a body that is no JSON, or the parsed JSON value.              *)
(***************************************************************************)
Entry(m, n, t, notes) ==
    [k |-> "obj", matter |-> m, manner |-> n, method |-> t, notes |-> notes]

E_zero == EmptyEntry
E_over == Entry(IntV(999), PosInf, Str("1e3"), Str("strong"))
E_full == Entry(IntV(40), IntV(30), IntV(30), Missing)

SideOf(e1, e2, e3, rep) ==
    [k |-> "obj", speaker1 |-> e1, speaker2 |-> e2, speaker3 |-> e3, reply |-> rep]

Sheet(aff, neg) == [k |-> "obj", affirmative |-> aff, negative |-> neg]

Move(label, explanation, time) ==
    [k |-> "obj", time |-> time, label |-> label, explanation |-> explanation]

Blob(overview, improvements, moves) ==
    [k |-> "obj", overview |-> overview, improvements |-> improvements,
     notable_moves |-> [k |-> "list", items |-> moves]]

M_brilliant == Move(Str("brilliant"), Text(<<"Turned the opposition's evidence", ".">>), Str("Reply"))
M_blunder == Move(Str("Blunder"), Missing, Str(" 02:15 "))
M_odd == Move(Str("meh"), Text(<<"s">>), Missing)
M_great == Move(Str("GREAT"), Text(<<"Why", "?", "s", "Because", "!">>), Null)

GoodBlob == Blob(Text(<<"A tidy case", ".">>), Text(<<"s", "Weigh earlier", ".", "s">>),
                 <<M_brilliant, M_great>>)

GoodAnalysis == [k |-> "obj", affirmative |-> GoodBlob, negative |-> GoodBlob]

Body(meta, scores, winner, rationale, analysis) ==
    [k |-> "obj", meta |-> meta, scores |-> scores, winner |-> winner,
     rationale |-> rationale, analysis |-> analysis,
     totals |-> [k |-> "missing"], final_statement |-> Missing]

Json(body) == [outcome |-> "json", body |-> body]

S_300 == SideOf(E_full, E_over, E_over, E_zero)
S_250 == SideOf(E_zero, E_over, E_full, E_over)
S_200 == SideOf(E_over, E_zero, E_full, E_zero)

GoodSheet == Sheet(S_300, S_250)
GoodBody ==
    Body([k |-> "obj", format |-> Str("Policy"), rules |-> Str("WSDC rules")],
         GoodSheet, Str("AFFIRMATIVE"),
         [k |-> "obj", summary |-> StrOfLen(300), why_winner |-> StrOfLen(700),
          key_clashes |-> [t |-> "array", n |-> 3, strs |-> TRUE]],
         GoodAnalysis)

\* one reply for each way a run can go
BaseReplies ==
    {[outcome |-> "transport"], [outcome |-> "not json"],
     Json([k |-> "list"]), Json([k |-> "str"]),
     Json(GoodBody),
     Json([GoodBody EXCEPT !.winner = Str("TIE")]),
     Json([GoodBody EXCEPT !.winner = Str("NEGATIVE")]),
     Json([GoodBody EXCEPT !.winner = Str("TIE"), !.scores = Sheet(S_200, S_200)]),
     Json([GoodBody EXCEPT !.winner = Str("DRAW")]),
     Json([GoodBody EXCEPT !.winner = Missing]),
     Json([GoodBody EXCEPT !.meta = [k |-> "missing"]]),
     Json([GoodBody EXCEPT !.meta.format = Str("Debate")]),
     Json([GoodBody EXCEPT !.rationale.summary = StrOfLen(701)]),
     Json([GoodBody EXCEPT !.rationale.key_clashes = [t |-> "array", n |-> 7, strs |-> TRUE]]),
     Json([GoodBody EXCEPT !.rationale = [k |-> "missing"]]),
     Json([GoodBody EXCEPT !.scores.affirmative.speaker1.notes = IntV(3)]),
     Json([GoodBody EXCEPT !.scores = [k |-> "missing"]]),
     Json([GoodBody EXCEPT !.scores = [k |-> "null"]]),
     Json([GoodBody EXCEPT !.scores.negative = [k |-> "list", items |-> <<>>]]),
     Json([GoodBody EXCEPT !.scores.negative = [k |-> "missing"]]),
     Json([GoodBody EXCEPT !.scores.affirmative.reply = [k |-> "str"]]),
     Json([GoodBody EXCEPT !.analysis = [k |-> "missing"]]),
     Json([GoodBody EXCEPT !.analysis = [k |-> "str"]]),
     Json([GoodBody EXCEPT !.analysis.negative = [k |-> "null"]]),
     Json([GoodBody EXCEPT !.analysis.negative = [k |-> "str"]]),
     Json([GoodBody EXCEPT !.analysis.affirmative.overview = IntV(5)]),
     Json([GoodBody EXCEPT !.analysis.affirmative.overview = Text(<<".", ".", ".">>)]),
     Json([GoodBody EXCEPT !.analysis.affirmative.notable_moves = [k |-> "str"]]),
     Json([GoodBody EXCEPT !.analysis.affirmative.notable_moves = [k |-> "null"]]),
     Json([GoodBody EXCEPT !.analysis.affirmative.notable_moves.items = <<[k |-> "str"]>>]),
     Json([GoodBody EXCEPT !.analysis.affirmative.notable_moves.items =
              <<Move(IntV(5), Missing, Missing)>>])}

\* the values a numeric field may hold
RawVals ==
    {Missing, Null, NaN, PosInf, NegInf, [t |-> "bigint"], [t |-> "list"], [t |-> "obj"],
     BoolV(TRUE),
     IntV(999), IntV(-5), IntV(0), IntV(40), IntV(15), Num(127), Num(405), Num(-5),
     Str("abc"), Str("12.5"), Str(" 7 "), Str("1e3"), Str("nan"), Str("-3"),
     Str("Infinity"), Str("")}

\* every field of every entry holds every raw value, the other fields 10
E_ten == Entry(IntV(10), IntV(10), IntV(10), Missing)
S_ten == SideOf(E_ten, E_ten, E_ten, E_ten)

OneFieldReplies ==
    {Json([GoodBody EXCEPT !.scores =
              [Sheet(S_ten, S_ten) EXCEPT ![side][e][f] = v]]) :
        side \in Sides, e \in Entries, f \in Fields, v \in RawVals}

\* score sheets whose totals spread over 0..350
SheetSides ==
    {SideOf(e1, e23, e23, rep) :
        e1 \in {E_zero, E_over,
               Entry(Num(127), Str(" 7 "), BoolV(TRUE), Str("")),
               Entry(IntV(1), Str("abc"), Null, Missing),
               Entry(IntV(-5), Num(95), Missing, Str("weak"))},
        e23 \in {E_zero, E_over},
        rep \in {E_zero, E_full, Entry(Str("12.5"), IntV(4), NegInf, Missing)}}

SheetReplies ==
    {Json([GoodBody EXCEPT !.scores = Sheet(aff, neg), !.winner = Str(w)]) :
        aff \in SheetSides, neg \in SheetSides, w \in WINNERS}

ScoreReplies == BaseReplies \cup OneFieldReplies \cup SheetReplies

\* lists of notable moves of every length up to MaxMoves
MoveLists == SeqsUpTo({M_brilliant, M_blunder, M_odd}, MaxMoves)

MoveReplies ==
    {Json([GoodBody EXCEPT
              !.analysis.affirmative.notable_moves.items = aff,
              !.analysis.negative.notable_moves.items = neg,
              !.winner = Str(ws[1]),
              !.scores = ws[2]]) :
        aff \in MoveLists,
        neg \in {<<>>, <<M_brilliant, M_brilliant, M_great, M_great>>, <<M_blunder, M_odd>>},
        ws \in {<<"AFFIRMATIVE", Sheet(S_200, S_200)>>, <<"NEGATIVE", Sheet(S_200, S_200)>>,
                <<"TIE", Sheet(S_200, S_200)>>, <<"TIE", Sheet(S_300, S_250)>>,
                <<"TIE", Sheet(S_250, S_300)>>, <<"AFFIRMATIVE", Sheet(S_250, S_300)>>}}

Replies == BaseReplies \cup MoveReplies

(***************************************************************************)
(* main, one action per step.                                              *)
(***************************************************************************)
Idle == /\ arg = 0
        /\ ret = ""

Start(texts) ==
    /\ pc = "gate"
    /\ transcript \in texts
    /\ response = NoReply
    /\ result = NoResult
    /\ modelCalls = 0
    /\ validations = 0
    /\ stages = <<>>
    /\ output = NoOutput
    /\ error = "none"
    /\ Idle

Init == Start(MainTranscripts)

\* an uncaught exception ends the run
Raise(exc) ==
    /\ pc' = "fatal"
    /\ error' = exc

\* variant: a low-content transcript goes on to the model call
gate_falls_through ==
    /\ pc = "gate"
    /\ is_low_content(transcript)
    /\ LET r == [empty_result EXCEPT
                    !.totals = [k |-> "obj", affirmative |-> 0, negative |-> 0],
                    !.final_statement = Str(tie_statement(scale_to_100(0), scale_to_100(0)))]
       IN  /\ result' = r
           /\ output' = report(r, scale_to_100(0), scale_to_100(0))
    /\ stages' = stages \o <<"is_low_content", "empty_result">>
    /\ pc' = "call"
    /\ UNCHANGED <<transcript, response, modelCalls, validations, error, arg, ret>>

\* lines 452-490: the low-content short-circuit
GateLow ==
    /\ pc = "gate"
    /\ is_low_content(transcript)
    /\ LET r == [empty_result EXCEPT
                    !.totals = [k |-> "obj", affirmative |-> 0, negative |-> 0],
                    !.final_statement = Str(tie_statement(scale_to_100(0), scale_to_100(0)))]
       IN  /\ result' = r
           /\ output' = report(r, scale_to_100(0), scale_to_100(0))
    /\ stages' = stages \o <<"is_low_content", "empty_result">>
    /\ pc' = "done"
    /\ UNCHANGED <<transcript, response, modelCalls, validations, error, arg, ret>>

GatePass ==
    /\ pc = "gate"
    /\ ~is_low_content(transcript)
    /\ stages' = Append(stages, "is_low_content")
    /\ pc' = "call"
    /\ UNCHANGED <<transcript, response, result, modelCalls, validations, output, error, arg, ret>>

\* line 498 and chat_ollama: requests.post or raise_for_status raises on a
\* transport failure, json.loads on a body that is no JSON
CallModel(replies) ==
    /\ pc = "call"
    /\ modelCalls' = modelCalls + 1
    /\ stages' = Append(stages, "chat_ollama")
    /\ \E reply \in replies :
         /\ response' = reply
         /\ CASE reply.outcome = "transport" ->
                  Raise("RequestException") /\ UNCHANGED result
             [] reply.outcome = "not json" ->
                  Raise("RuntimeError") /\ UNCHANGED result
             [] OTHER ->
                  /\ result' = reply.body
                  /\ pc' = "clamp"
                  /\ UNCHANGED error
    /\ UNCHANGED <<transcript, validations, output, arg, ret>>

\* result = enforce_ranges(result) and what follows it
EnforceThen(next) ==
    /\ stages' = Append(stages, "enforce_ranges")
    /\ IF enforce_ranges_raises(result)
       THEN Raise("AttributeError") /\ UNCHANGED result
       ELSE /\ result' = enforce_ranges(result)
            /\ pc' = next
            /\ UNCHANGED error
    /\ UNCHANGED <<transcript, response, modelCalls, validations, output, arg, ret>>

\* result = ensure_analysis_defaults(result, transcript_text) and what follows it
NormalizeThen(next) ==
    /\ stages' = Append(stages, "ensure_analysis_defaults")
    /\ IF ensure_analysis_defaults_raises(result)
       THEN Raise("AttributeError") /\ UNCHANGED result
       ELSE /\ result' = ensure_analysis_defaults(result)
            /\ pc' = next
            /\ UNCHANGED error
    /\ UNCHANGED <<transcript, response, modelCalls, validations, output, arg, ret>>

\* variant: the parsed response goes to validation as it came
clamp_after_validation ==
    /\ pc = "clamp"
    /\ pc' = "validate"
    /\ UNCHANGED <<transcript, response, result, modelCalls, validations, stages, output, error, arg, ret>>

\* line 501
Clamp ==
    /\ pc = "clamp"
    /\ EnforceThen("normalize")

\* variant: the normalizer is left to the repair cycle
normalize_after_validation ==
    /\ pc = "normalize"
    /\ pc' = "validate"
    /\ UNCHANGED <<transcript, response, result, modelCalls, validations, stages, output, error, arg, ret>>

\* line 504
Normalize ==
    /\ pc = "normalize"
    /\ NormalizeThen("validate")

\* variant: a failed validation asks the model again
validate_then_call_again ==
    /\ pc = "validate"
    /\ validations' = validations + 1
    /\ stages' = Append(stages, "validate")
    /\ pc' = IF Validate(result) THEN "totals" ELSE "call"
    /\ UNCHANGED <<transcript, response, result, modelCalls, output, error, arg, ret>>

\* lines 507-509: the first validation; a ValidationError enters the handler
ValidateFirst ==
    /\ pc = "validate"
    /\ validations' = validations + 1
    /\ stages' = Append(stages, "validate")
    /\ pc' = IF Validate(result) THEN "totals" ELSE "repair_clamp"
    /\ UNCHANGED <<transcript, response, result, modelCalls, output, error, arg, ret>>

\* line 510
RepairClamp ==
    /\ pc = "repair_clamp"
    /\ EnforceThen("repair_normalize")

\* line 511
RepairNormalize ==
    /\ pc = "repair_normalize"
    /\ NormalizeThen("revalidate")

\* variant: the score lines are printed before the second validation raises
validate_again_after_printing ==
    /\ pc = "revalidate"
    /\ validations' = validations + 1
    /\ stages' = Append(stages, "validate")
    /\ output' = [lines |-> <<"Team AFFIRMATIVE: " \o FormatTenths(scale_to_100(side_total(result.scores.affirmative))) \o "/100">>,
                  analysis |-> result.analysis]
    /\ IF Validate(result)
       THEN pc' = "totals" /\ UNCHANGED error
       ELSE Raise("ValidationError")
    /\ UNCHANGED <<transcript, response, result, modelCalls, arg, ret>>

\* line 512: the validation inside the handler; its ValidationError is not caught
ValidateAgain ==
    /\ pc = "revalidate"
    /\ validations' = validations + 1
    /\ stages' = Append(stages, "validate")
    /\ IF Validate(result)
       THEN pc' = "totals" /\ UNCHANGED error
       ELSE Raise("ValidationError")
    /\ UNCHANGED <<transcript, response, result, modelCalls, output, arg, ret>>

\* lines 515-520
Totals ==
    /\ pc = "totals"
    /\ LET totals == compute_totals(result)
       IN  result' = [result EXCEPT
                         !.totals = [k |-> "obj", affirmative |-> totals.affirmative,
                                     negative |-> totals.negative],
                         !.winner = tie_break(result, totals)]
    /\ stages' = Append(stages, "compute_totals")
    /\ pc' = "rebalance"
    /\ UNCHANGED <<transcript, response, modelCalls, validations, output, error, arg, ret>>

\* line 523; result.get("winner", "TIE") is a string once validated
Rebalance ==
    /\ pc = "rebalance"
    /\ result' = rebalance_notable_moves(result, result.winner.s)
    /\ stages' = Append(stages, "rebalance_notable_moves")
    /\ pc' = "compose"
    /\ UNCHANGED <<transcript, response, modelCalls, validations, output, error, arg, ret>>

\* lines 534-575
Compose ==
    /\ pc = "compose"
    /\ LET r == [result EXCEPT !.final_statement = Str(final_statement(result))]
       IN  /\ result' = r
           /\ output' = report(r, scale_to_100(r.totals.affirmative),
                               scale_to_100(r.totals.negative))
    /\ stages' = Append(stages, "final_statement")
    /\ pc' = "done"
    /\ UNCHANGED <<transcript, response, modelCalls, validations, error, arg, ret>>

Pipeline(replies) ==
    \/ GateLow
    \/ GatePass
    \/ CallModel(replies)
    \/ Clamp
    \/ Normalize
    \/ ValidateFirst
    \/ RepairClamp
    \/ RepairNormalize
    \/ ValidateAgain
    \/ Totals
    \/ Rebalance
    \/ Compose

Next == Pipeline(Replies)

Spec == Init /\ [][Next]_vars

\* the pipeline on replies that vary the score sheet
NextScores == Pipeline(ScoreReplies)

SpecScores == Init /\ [][NextScores]_vars

\* the gate alone, on every transcript of at most MaxLines lines
InitGate == Start(AllTranscripts)

NextGate == GateLow \/ GatePass

SpecGate == InitGate /\ [][NextGate]_vars

\* margin_label applied to every difference within MaxDiff
InitMargin ==
    /\ pc = "apply"
    /\ arg \in (-MaxDiff)..MaxDiff
    /\ ret = ""
    /\ transcript = <<>>
    /\ response = NoReply
    /\ result = NoResult
    /\ modelCalls = 0
    /\ validations = 0
    /\ stages = <<>>
    /\ output = NoOutput
    /\ error = "none"

ApplyMarginLabel ==
    /\ pc = "apply"
    /\ ret' = margin_label(arg)
    /\ pc' = "applied"
    /\ UNCHANGED <<transcript, response, result, modelCalls, validations, stages, output, error, arg>>

SpecMargin == InitMargin /\ [][ApplyMarginLabel]_vars

\* lines 534-546 applied to every pair of raw totals within MaxTotal
InitStatement ==
    /\ pc = "compose_only"
    /\ arg \in (0..MaxTotal) \X (0..MaxTotal)
    /\ ret = ""
    /\ transcript = <<>>
    /\ response = NoReply
    /\ result = NoResult
    /\ modelCalls = 0
    /\ validations = 0
    /\ stages = <<>>
    /\ output = NoOutput
    /\ error = "none"

ApplyFinalStatement ==
    /\ pc = "compose_only"
    /\ ret' = final_statement([totals |-> [affirmative |-> arg[1], negative |-> arg[2]]])
    /\ pc' = "composed"
    /\ UNCHANGED <<transcript, response, result, modelCalls, validations, stages, output, error, arg>>

SpecStatement == InitStatement /\ [][ApplyFinalStatement]_vars

(***************************************************************************)
(* Properties.                                                             *)
(***************************************************************************)
\* the run took the model branch and this step of it has returned
ModelBranch == modelCalls = 1
Returned(stage) ==
    \E i \in 1..Len(stages) : stages[i] = stage /\ (i < Len(stages) \/ pc # "fatal")

\* the verdict has been printed and main has returned
VerdictReturned == pc = "done"

ScoresAreObjects(body) ==
    /\ body.k = "obj"
    /\ body.scores.k = "obj"
    /\ \A side \in Sides :
         /\ body.scores[side].k = "obj"
         /\ \A e \in Entries : body.scores[side][e].k = "obj"

\* C1: once enforce_ranges has returned on a response whose scores, sides and
\* speaker entries are objects, each of the 24 score fields is a number
\* between 0 and the maximum the schema declares for it; a field the response
\* lacked is 0, and a speaker's matter of 999 is 40.
C1_ScoresWithinBounds ==
    (Returned("enforce_ranges") /\ ScoresAreObjects(response.body)) =>
        \A side \in Sides, e \in Entries, f \in Fields :
            LET was == response.body.scores[side][e][f]
                now == result.scores[side][e][f]
            IN  /\ now.t = "num"
                /\ 0 <= now.v
                /\ now.v <= 10 * SchemaMax(e, f)
                /\ was = Missing => now = IntV(0)
                /\ (was = IntV(999) /\ e \in Speakers /\ f = "matter") => now = IntV(40)

C1_Witness ==
    /\ pc = "normalize"
    /\ ScoresAreObjects(response.body)
    /\ response.body.scores.negative.speaker2.matter = IntV(999)
    /\ result.scores.negative.speaker2.matter = IntV(40)

LabelCount(blob, labels) ==
    Cardinality({i \in 1..Len(blob.notable_moves.items) :
                    blob.notable_moves.items[i].label.s \in labels})

PositiveMajority(blob) ==
    LabelCount(blob, {"brilliant", "great"}) > LabelCount(blob, {"inaccuracy", "blunder"})

NegativeMajority(blob) ==
    LabelCount(blob, {"inaccuracy", "blunder"}) > LabelCount(blob, {"brilliant", "great"})

\* C2: a verdict the model branch completes with winner AFFIRMATIVE or
\* NEGATIVE gives the winning side 4 labels with strictly more positive than
\* negative ones and the losing side 4 labels with strictly more negative
\* than positive ones, whatever moves the response listed.
C2_LabelMajorities ==
    (VerdictReturned /\ ModelBranch /\ result.winner \in {Str("AFFIRMATIVE"), Str("NEGATIVE")}) =>
        LET won == IF result.winner = Str("AFFIRMATIVE") THEN "affirmative" ELSE "negative"
            lost == IF result.winner = Str("AFFIRMATIVE") THEN "negative" ELSE "affirmative"
        IN  /\ Len(result.analysis[won].notable_moves.items) = 4
            /\ Len(result.analysis[lost].notable_moves.items) = 4
            /\ PositiveMajority(result.analysis[won])
            /\ NegativeMajority(result.analysis[lost])

\* the response gave the eventual winner no move and the loser four positive ones
C2_Witness ==
    /\ VerdictReturned /\ ModelBranch
    /\ result.winner = Str("AFFIRMATIVE")
    /\ response.body.analysis.affirmative.notable_moves.items = <<>>
    /\ response.body.analysis.negative.notable_moves.items
           = <<M_brilliant, M_brilliant, M_great, M_great>>

FourSlots(blob) ==
    /\ Len(blob.notable_moves.items) = 4
    /\ blob.notable_moves.items[1].time = Str("First Speech")
    /\ blob.notable_moves.items[2].time = Str("Second Speech")
    /\ blob.notable_moves.items[3].time = Str("Third Speech")
    /\ blob.notable_moves.items[4].time = Str("Reply")

\* C3 as stated: every verdict returned, on the low-content branch too, has
\* on each side exactly 4 notable moves timed First Speech, Second Speech,
\* Third Speech, Reply.
C3_FourSlotsOnEveryVerdict ==
    VerdictReturned => \A side \in Sides : FourSlots(result.analysis[side])

\* C3 amended: every verdict the model branch returns has on each side
\* exactly 4 notable moves timed First Speech, Second Speech, Third Speech,
\* Reply in that order; the verdict of the low-content branch has no notable
\* move on either side.
C3_FourSlotsOnModelBranch ==
    VerdictReturned =>
        \A side \in Sides :
            IF ModelBranch THEN FourSlots(result.analysis[side])
            ELSE result.analysis[side].notable_moves.items = <<>>

\* the response listed more than 4 moves and timed the first one "Reply"
C3_Witness ==
    /\ VerdictReturned /\ ModelBranch
    /\ Len(response.body.analysis.affirmative.notable_moves.items) > 4
    /\ response.body.analysis.affirmative.notable_moves.items[1].time = Str("Reply")
    /\ FourSlots(result.analysis.affirmative)

\* the gate has classified the transcript: low-content ends the run at once
GateDecided == pc # "gate"
ClassifiedLow == stages = <<"is_low_content", "empty_result">>

\* lines that are a tag and then speech, and the speech they carry
WellFormed(t) == \A i \in 1..Len(t) : t[i].kind \in {"tagged", "plain", "blank"}

RECURSIVE TaggedCount(_)
TaggedCount(t) ==
    IF t = <<>> THEN 0
    ELSE (IF Head(t).kind = "tagged" THEN 1 ELSE 0) + TaggedCount(Tail(t))

RECURSIVE PayloadChars(_)
PayloadChars(t) ==
    IF t = <<>> THEN 0
    ELSE (IF Head(t).kind = "tagged" THEN Head(t).n ELSE 0) + PayloadChars(Tail(t))

\* C4: a transcript is classified low-content exactly when fewer than 3 of
\* its lines carry a tag or the speech of its tagged lines, the tags taken
\* off, adds up to fewer than 120 characters (here for transcripts whose
\* every tag is closed and starts its line).
C4_LowContentExactly ==
    (GateDecided /\ WellFormed(transcript)) =>
        (ClassifiedLow <=> (TaggedCount(transcript) < 3 \/ PayloadChars(transcript) < 120))

\* C5: whenever the gate fires, the verdict has all 24 score fields 0, both
\* totals 0, winner TIE and the final statement
\* "The round is a TIE. Final (/100): AFF 0.0 - NEG 0.0.".
C5_CanonicalEmptyVerdict ==
    ClassifiedLow =>
        /\ \A side \in Sides, e \in Entries, f \in Fields : result.scores[side][e][f] = IntV(0)
        /\ result.totals.affirmative = 0
        /\ result.totals.negative = 0
        /\ result.winner = Str("TIE")
        /\ result.final_statement = Str("The round is a TIE. Final (/100): AFF 0.0 - NEG 0.0.")
        /\ output.lines[3] = "Final verdict: The round is a TIE. Final (/100): AFF 0.0 - NEG 0.0."

\* scenario A: one tagged line of 20 characters
C5_Witness ==
    /\ ClassifiedLow
    /\ transcript = <<Line("tagged", 20)>>
    /\ VerdictReturned

\* C6: in a run whose transcript is low-content the model service is never
\* called, no stage after the gate runs, and the run ends with the verdict
\* printed.
C6_NoModelCallOnLowContent ==
    is_low_content(transcript) =>
        /\ modelCalls = 0
        /\ \A i \in 1..Len(stages) : stages[i] \in {"is_low_content", "empty_result"}
        /\ pc \in {"gate", "done"}
        /\ pc = "done" => output # NoOutput

C6_Witness ==
    /\ pc = "done"
    /\ is_low_content(transcript)
    /\ modelCalls = 0
    /\ transcript = <<Line("tagged", 120), Line("tagged", 120)>>
    /\ output # NoOutput

\* the tie-break step has run
TotalsDone == ModelBranch /\ Returned("compute_totals")

\* C7: when the response declared TIE, after the tie-break the winner is the
\* side with the higher raw total if the totals differ, and stays TIE exactly
\* when they are equal.
C7_TieBreak ==
    (TotalsDone /\ response.body.winner = Str("TIE")) =>
        LET a == result.totals.affirmative
            b == result.totals.negative
        IN  /\ a > b => result.winner = Str("AFFIRMATIVE")
            /\ a < b => result.winner = Str("NEGATIVE")
            /\ (result.winner = Str("TIE")) <=> (a = b)

\* scenario C: 300 against 250, declared TIE
C7_Witness ==
    /\ pc = "rebalance"
    /\ response.body.winner = Str("TIE")
    /\ result.totals.affirmative = 300
    /\ result.totals.negative = 250
    /\ result.winner = Str("AFFIRMATIVE")

\* the margin classes of the claim, by the absolute difference
ClaimedMargin(d) ==
    CASE d \in 0..2 -> "very close"
      [] d \in 3..5 -> "close but clear"
      [] d \in 6..10 -> "clear win"
      [] d \in 11..20 -> "dominant win"
      [] OTHER -> "overwhelming win"

\* the two sentences, from the scaled scores in tenths
ClaimedTieSentence(a10, b10) ==
    "The round is a TIE. Final (/100): AFF " \o FormatTenths(a10) \o " - NEG "
        \o FormatTenths(b10) \o "."

ClaimedWinSentence(team, gap10, margin, a10, b10) ==
    "Congratulations, Team " \o team \o "! You win by " \o FormatTenths(gap10)
        \o " points (" \o margin \o "). Final (/100): AFF " \o FormatTenths(a10)
        \o " - NEG " \o FormatTenths(b10) \o "."

\* C8: the final statement is the TIE sentence exactly when the raw totals
\* are equal, and then both scaled scores in it are the same; otherwise it is
\* the Congratulations sentence for the side with the higher raw total.
C8_FinalStatement ==
    (VerdictReturned /\ ModelBranch) =>
        LET a == result.totals.affirmative
            b == result.totals.negative
            a10 == scale_to_100(a)
            b10 == scale_to_100(b)
            fs == result.final_statement.s
        IN  /\ (fs = ClaimedTieSentence(a10, b10)) <=> (a = b)
            /\ a = b => a10 = b10
            /\ a > b => fs = ClaimedWinSentence("AFFIRMATIVE", Abs(a10 - b10),
                                                ClaimedMargin(Abs(a - b)), a10, b10)
            /\ a < b => fs = ClaimedWinSentence("NEGATIVE", Abs(a10 - b10),
                                                ClaimedMargin(Abs(a - b)), a10, b10)

C8_Witness ==
    /\ VerdictReturned /\ ModelBranch
    /\ result.totals.affirmative = 250
    /\ result.totals.negative = 300
    /\ result.final_statement = Str("Congratulations, Team NEGATIVE! You win by 14.3 points (overwhelming win). Final (/100): AFF 71.4 - NEG 85.7.")

\* C9: margin_label(d) is the class of |d|: very close up to 2, close but
\* clear up to 5, clear win up to 10, dominant win up to 20, overwhelming
\* win above, the same for d and -d.
C9_MarginLabel ==
    pc = "applied" =>
        /\ ret = ClaimedMargin(Abs(arg))
        /\ ret = margin_label(-arg)

C9_Witness ==
    /\ pc = "applied"
    /\ arg = -11
    /\ ret = "dominant win"

\* the sum of the 12 score fields of a side
FieldSum(side_obj) ==
    LET v(e, f) == side_obj[e][f].v \div 10
        entry(e) == v(e, "matter") + v(e, "manner") + v(e, "method")
    IN  entry("speaker1") + entry("speaker2") + entry("speaker3") + entry("reply")

\* t is raw / 3.5 rounded to one decimal, in tenths: |t - 20 raw / 7| < 1/2
NearestTenth(t, raw) == Abs(7 * t - 20 * raw) <= 3

\* C10: on a sanitized verdict each raw total is the sum of the side's 12
\* fields and lies in 0..350; the scaled score printed for it is raw / 3.5
\* rounded to one decimal and lies in 0.0..100.0, 0.0 for raw 0 and 100.0 for
\* raw 350; a higher raw total never gets a lower scaled score.
C10_TotalsAndScaling ==
    (VerdictReturned /\ ModelBranch) =>
        /\ \A side \in Sides :
             LET raw == result.totals[side]
                 t == scale_to_100(raw)
             IN  /\ raw = FieldSum(result.scores[side])
                 /\ raw \in 0..350
                 /\ t \in 0..1000
                 /\ NearestTenth(t, raw)
                 /\ raw = 0 => t = 0
                 /\ raw = 350 => t = 1000
        /\ output.lines[1] = "Team AFFIRMATIVE: "
               \o FormatTenths(scale_to_100(result.totals.affirmative)) \o "/100"
        /\ output.lines[2] = "Team NEGATIVE:   "
               \o FormatTenths(scale_to_100(result.totals.negative)) \o "/100"
        /\ result.totals.affirmative <= result.totals.negative
               => scale_to_100(result.totals.affirmative) <= scale_to_100(result.totals.negative)
        /\ \A raw \in 0..349 : scale_to_100(raw) <= scale_to_100(raw + 1)

C10_Witness ==
    /\ VerdictReturned /\ ModelBranch
    /\ result.totals.affirmative = 350
    /\ result.totals.negative = 0
    /\ output.lines[1] = "Team AFFIRMATIVE: 100.0/100"
    /\ output.lines[2] = "Team NEGATIVE:   0.0/100"

\* num / 3.5 rounded to one decimal, in tenths (20 num / 7 is never half way)
RoundedTenth(num) == (20 * num) \div 7 + (IF 2 * ((20 * num) % 7) >= 7 THEN 1 ELSE 0)

\* the gap of the claim's second reading: from the unrounded quotients
UnroundedGap(a, b) == RoundedTenth(Abs(a - b))

\* the gap from the two scaled scores as printed
PrintedGap(a, b) == Abs(RoundedTenth(a) - RoundedTenth(b))

GapSentence(a, b, gap10) ==
    ClaimedWinSentence(IF a > b THEN "AFFIRMATIVE" ELSE "NEGATIVE", gap10,
                       ClaimedMargin(Abs(a - b)), RoundedTenth(a), RoundedTenth(b))

\* C11 as stated: for raw totals a # b the gap printed in the final statement
\* is the difference of the two scaled scores and also the difference of the
\* unrounded quotients rounded to one decimal.
C11_GapAgreesWithUnrounded ==
    (pc = "composed" /\ arg[1] # arg[2]) =>
        /\ ret = GapSentence(arg[1], arg[2], PrintedGap(arg[1], arg[2]))
        /\ ret = GapSentence(arg[1], arg[2], UnroundedGap(arg[1], arg[2]))

\* C11 amended: for raw totals a # b the gap printed in the final statement
\* is the difference of the two scaled scores, each rounded to one decimal
\* first; it is within 0.1 of the difference of the unrounded quotients
\* rounded to one decimal; for 300 against 250 it is 14.3 with the label
\* "overwhelming win".
C11_GapFromScaledScores ==
    (pc = "composed" /\ arg[1] # arg[2]) =>
        /\ ret = GapSentence(arg[1], arg[2], PrintedGap(arg[1], arg[2]))
        /\ Abs(PrintedGap(arg[1], arg[2]) - UnroundedGap(arg[1], arg[2])) <= 1
        /\ arg = <<300, 250>> =>
              ret = "Congratulations, Team AFFIRMATIVE! You win by 14.3 points (overwhelming win). Final (/100): AFF 85.7 - NEG 71.4."

\* 4 against 1: 1.1 - 0.3 = 0.8 is printed, 3 / 3.5 rounds to 0.9
C11_Witness ==
    /\ pc = "composed"
    /\ arg = <<4, 1>>
    /\ ret = "Congratulations, Team AFFIRMATIVE! You win by 0.8 points (close but clear). Final (/100): AFF 1.1 - NEG 0.3."
    /\ UnroundedGap(4, 1) = 9

\* the stages of a run whose first validation fails, in order
RepairRun ==
    <<"is_low_content", "chat_ollama", "enforce_ranges", "ensure_analysis_defaults", "validate",
      "enforce_ranges", "ensure_analysis_defaults", "validate">>

IsPrefix(p, q) == Len(p) <= Len(q) /\ SubSeq(q, 1, Len(p)) = p

\* the first validation has run and raised ValidationError
FirstValidationFailed ==
    \/ pc \in {"repair_clamp", "repair_normalize", "revalidate"}
    \/ validations = 2

\* C12: the model service is called at most once per run and validation runs
\* at most twice; after a failed first validation the run goes through
\* enforce_ranges, ensure_analysis_defaults and one re-validation on the same
\* response, and when that fails too the run ends in a fatal error.
C12_OneRepairCycle ==
    /\ modelCalls <= 1
    /\ validations <= 2
    /\ FirstValidationFailed =>
          /\ modelCalls = 1
          /\ Len(stages) >= 5
          /\ IsPrefix(stages, RepairRun) \/ IsPrefix(RepairRun, stages)
          /\ response.outcome = "json"
          /\ (validations = 2 /\ ~Validate(result)) =>
                /\ pc = "fatal"
                /\ error = "ValidationError"
                /\ stages = RepairRun

\* a response whose winner is no member of the enum fails both validations
C12_Witness ==
    /\ pc = "fatal"
    /\ error = "ValidationError"
    /\ response.body.winner = Str("DRAW")
    /\ validations = 2
    /\ modelCalls = 1
    /\ stages = RepairRun

\* the run ended with an uncaught exception
Fatal == pc = "fatal"

\* C13: a run that ends in a fatal error has printed nothing of a verdict:
\* no score line, no final statement, no analysis; output exists only once
\* main has returned normally.
C13_NoVerdictOnFatal ==
    /\ Fatal =>
          /\ error # "none"
          /\ output = NoOutput
          /\ result = NoResult \/ result.k # "obj" \/ result.final_statement = Missing
    /\ output # NoOutput => pc = "done"

\* the model answered with a body that is no JSON
C13_Witness ==
    /\ Fatal
    /\ error = "RuntimeError"
    /\ response.outcome = "not json"
    /\ output = NoOutput
    /\ result = NoResult

\* the stage that ran last
LastStage == IF stages = <<>> THEN "none" ELSE stages[Len(stages)]

\* C14: enforce_ranges returns normally on every parsed response, whatever
\* JSON value stands for scores, a side, an entry or a numeric field: no run
\* ends with an exception raised inside enforce_ranges.
C14_EnforceRangesNeverRaises ==
    ~(Fatal /\ LastStage = "enforce_ranges")

\* C15: once ensure_analysis_defaults has returned, each side's overview and
\* improvements hold at least 4 sentences (non-empty segments between ".",
\* "!" and "?"), whatever string the response carried there.
C15_FourSentences ==
    (ModelBranch /\ Returned("ensure_analysis_defaults")) =>
        \A side \in Sides :
            /\ CountSegments(result.analysis[side].overview.toks, FALSE) >= 4
            /\ CountSegments(result.analysis[side].improvements.toks, FALSE) >= 4

\* the labels and the time slots of a side, in order
LabelsOf(blob) == [i \in 1..Len(blob.notable_moves.items) |-> blob.notable_moves.items[i].label]
TimesOf(blob) == [i \in 1..Len(blob.notable_moves.items) |-> blob.notable_moves.items[i].time]

\* rebalance_notable_moves has returned
Rebalanced == ModelBranch /\ Returned("rebalance_notable_moves")

\* C16: applying rebalance_notable_moves again with the same winner to a
\* rebalanced verdict leaves each side's 4 labels and 4 time slots as the
\* first application made them.
C16_RebalanceIdempotentOnLabels ==
    Rebalanced =>
        LET again == rebalance_notable_moves(result, result.winner.s)
        IN  \A side \in Sides :
                /\ Len(LabelsOf(again.analysis[side])) = 4
                /\ LabelsOf(again.analysis[side]) = LabelsOf(result.analysis[side])
                /\ TimesOf(again.analysis[side]) = TimesOf(result.analysis[side])

\* the second application rewrites the explanations and keeps the labels
C16_Witness ==
    /\ Rebalanced
    /\ result.winner = Str("NEGATIVE")
    /\ LabelsOf(result.analysis.negative) = <<Str("brilliant"), Str("great"), Str("good"), Str("inaccuracy")>>
    /\ LET again == rebalance_notable_moves(result, "NEGATIVE")
       IN  /\ again # result
           /\ LabelsOf(again.analysis.negative) = LabelsOf(result.analysis.negative)

\* the stages of a run whose first validation succeeds, in order
NormalRun ==
    <<"is_low_content", "chat_ollama", "enforce_ranges", "ensure_analysis_defaults", "validate",
      "compute_totals", "rebalance_notable_moves", "final_statement">>

\* the positions of a stage in the run so far
Positions(stage) == {i \in 1..Len(stages) : stages[i] = stage}

\* C17 as stated: on the model branch the first schema validation comes
\* straight after the model call, on the raw parsed response, before the
\* sanitizer or the normalizer has run.
C17_ValidationFirst ==
    (ModelBranch /\ validations >= 1) =>
        /\ \A i \in Positions("enforce_ranges") \cup Positions("ensure_analysis_defaults") :
              \E j \in Positions("validate") : j < i
        /\ pc = "validate" => result = response.body

\* C17 amended: on the model branch the stages run in the order model call,
\* sanitizer, normalizer, schema validation, then aggregator, rebalancer and
\* composer; the first validation is applied to the response as the
\* sanitizer and the normalizer left it, and both run once more only after
\* a validation failure.
C17_SanitizeBeforeValidation ==
    ModelBranch =>
        /\ IsPrefix(stages, NormalRun) \/ IsPrefix(stages, RepairRun)
        /\ pc = "validate" =>
              result = ensure_analysis_defaults(enforce_ranges(response.body))
        /\ Cardinality(Positions("enforce_ranges")) = 2 => ~IsPrefix(stages, NormalRun)

\* a response with a matter of 999, which the schema rejects as it came,
\* passes the only validation of its run
C17_Witness ==
    /\ VerdictReturned /\ ModelBranch
    /\ stages = NormalRun
    /\ validations = 1
    /\ ScoresAreObjects(response.body)
    /\ response.body.scores.affirmative.speaker2.matter = IntV(999)
    /\ ~Validate(response.body)

\* a string, null or an absent key: what "(x or d).strip()" accepts
TextOrNone(j) == j.t \in {"text", "str", "missing", "null"}

\* the analysis of the response lists, on each side, moves that are objects
\* with textual explanations and times, next to a textual overview and
\* improvements; the labels are any JSON value
ListsMoves(body) ==
    /\ body.k = "obj"
    /\ body.analysis.k = "obj"
    /\ \A side \in Sides :
         LET b == body.analysis[side]
         IN  /\ b.k = "obj"
             /\ TextOrNone(b.overview) /\ TextOrNone(b.improvements)
             /\ b.notable_moves.k = "list"
             /\ \A i \in 1..Len(b.notable_moves.items) :
                  LET m == b.notable_moves.items[i]
                  IN  m.k = "obj" /\ TextOrNone(m.explanation) /\ TextOrNone(m.time)

\* the label the claim gives a move: its own if the enum has it (in any
\* letter case), good otherwise
ClaimedLabel(l) ==
    IF l.t = "str" /\ Lower(l.s) \in LABELS THEN Str(Lower(l.s)) ELSE Str("good")

\* C18: for a response listing n moves on a side, ensure_analysis_defaults
\* returns with exactly 4 moves on that side: the first min(n, 4) input moves
\* in order, a label outside the enum replaced by good, then default good
\* moves; move i is timed with slot i.
C18_NormalizedMoves ==
    (ModelBranch /\ Positions("ensure_analysis_defaults") # {} /\ ListsMoves(response.body)) =>
        /\ Returned("ensure_analysis_defaults")
        /\ pc = "validate" =>
              \A side \in Sides :
                  LET ins == response.body.analysis[side].notable_moves.items
                      out == result.analysis[side].notable_moves.items
                  IN  /\ Len(out) = 4
                      /\ \A i \in 1..4 :
                           /\ out[i].time = Str(SPEECH_SLOTS[i])
                           /\ out[i].label = IF i <= Len(ins) THEN ClaimedLabel(ins[i].label)
                                             ELSE Str("good")

\* the two label templates of the rebalancer
WinningTemplate == <<Str("brilliant"), Str("great"), Str("good"), Str("inaccuracy")>>
LosingTemplate == <<Str("inaccuracy"), Str("blunder"), Str("good"), Str("great")>>

\* C19: after the rebalance a side holds the winning template exactly when
\* the finalized winner names it and the losing template otherwise; with
\* winner TIE both sides hold the losing template, and never do both sides
\* hold the winning one.
C19_TemplatesByWinner ==
    Rebalanced =>
        LET aff == LabelsOf(result.analysis.affirmative)
            neg == LabelsOf(result.analysis.negative)
        IN  /\ aff = IF result.winner = Str("AFFIRMATIVE") THEN WinningTemplate ELSE LosingTemplate
            /\ neg = IF result.winner = Str("NEGATIVE") THEN WinningTemplate ELSE LosingTemplate
            /\ result.winner = Str("TIE") => aff = LosingTemplate /\ neg = LosingTemplate
            /\ ~(aff = WinningTemplate /\ neg = WinningTemplate)

\* a tied round, 200 against 200
C19_Witness ==
    /\ Rebalanced
    /\ result.winner = Str("TIE")
    /\ result.totals.affirmative = 200
    /\ result.totals.negative = 200
    /\ LabelsOf(result.analysis.affirmative) = LosingTemplate
    /\ LabelsOf(result.analysis.negative) = LosingTemplate

\* C20: on every verdict the model branch returns, the final statement is
\* the TIE sentence exactly when the winner field is TIE, and otherwise it
\* congratulates the team of the winner field, the side that holds the
\* winning label template.
C20_WinnerAgrees ==
    (VerdictReturned /\ ModelBranch) =>
        LET a == result.totals.affirmative
            b == result.totals.negative
            a10 == RoundedTenth(a)
            b10 == RoundedTenth(b)
            fs == result.final_statement.s
            won == IF result.winner = Str("AFFIRMATIVE") THEN "affirmative" ELSE "negative"
        IN  /\ (fs = ClaimedTieSentence(a10, b10)) <=> (result.winner = Str("TIE"))
            /\ result.winner # Str("TIE") =>
                  /\ fs = ClaimedWinSentence(result.winner.s, Abs(a10 - b10),
                                             ClaimedMargin(Abs(a - b)), a10, b10)
                  /\ LabelsOf(result.analysis[won]) = WinningTemplate

\* the run is inside the handler of the first ValidationError
InRepair == pc \in {"repair_clamp", "repair_normalize", "revalidate"}

\* what the schema rejects lies in a part that neither enforce_ranges nor
\* ensure_analysis_defaults writes: meta, winner, rationale or a notes field
RejectedOutsideRepair(r) ==
    \/ ~ValidMeta(r.meta)
    \/ ~ValidWinner(r.winner)
    \/ ~ValidRationale(r.rationale)
    \/ \E side \in Sides, e \in Entries :
          ~(r.scores[side][e].notes.t = "missing" \/ IsStringLike(r.scores[side][e].notes))

\* C21: the repair cycle cannot change the validation outcome.  In every run
\* in which the first schema validation fails, the result is still rejected
\* by the schema at each step of the repair, for a reason that lies in meta,
\* winner, rationale or a notes field, which the repair leaves as the
\* response had them; the second validation fails too and the run ends in
\* the fatal error state with a ValidationError, never in a verdict.
C21_RepairNeverSucceeds ==
    FirstValidationFailed =>
        /\ InRepair \/ Fatal
        /\ ~Validate(result)
        /\ ScoresAreObjects(result)
        /\ ValidAnalysis(result.analysis)
        /\ RejectedOutsideRepair(result)
        /\ result.meta = response.body.meta
        /\ result.winner = response.body.winner
        /\ result.rationale = response.body.rationale
        /\ ~enforce_ranges_raises(result)
        /\ ~ensure_analysis_defaults_raises(result)
        /\ validations = 2 => (Fatal /\ error = "ValidationError" /\ output = NoOutput)

\* a response with a number for a notes field: the repair rewrites the
\* scores around it, and the second validation rejects it again
C21_Witness ==
    /\ Fatal
    /\ error = "ValidationError"
    /\ validations = 2
    /\ stages = RepairRun
    /\ ScoresAreObjects(response.body)
    /\ response.body.scores.affirmative.speaker1.notes = IntV(3)
    /\ result.scores.affirmative.speaker1.notes = IntV(3)
    /\ ValidMeta(result.meta) /\ ValidWinner(result.winner) /\ ValidRationale(result.rationale)

\* the notes of an entry of the response; an entry the response lacks has none
NotesOf(body, side, e) ==
    IF body.scores.k = "obj" /\ body.scores[side].k = "obj" /\ body.scores[side][e].k = "obj"
    THEN body.scores[side][e].notes
    ELSE Missing

\* enforce_ranges has just been applied to the parsed response and returned
Sanitized == ModelBranch /\ pc = "normalize"

\* C22: enforce_ranges is idempotent and leaves non-score data unchanged.
\* Once it has returned on an object response, a second application returns
\* too and gives the same object as the first; each of the 24 score fields is
\* a whole number; meta, winner, rationale, analysis and every notes field
\* are what the response held.  The application inside the repair cycle leaves
\* the scores as the first application made them, and on a response on which
\* the call raises, it raises again.
C22_EnforceRangesIdempotent ==
    /\ (Sanitized /\ response.body.k # "obj") => result = response.body
    /\ (Sanitized /\ response.body.k = "obj") =>
          /\ result = enforce_ranges(response.body)
          /\ ~enforce_ranges_raises(result)
          /\ enforce_ranges(result) = result
          /\ \A side \in Sides, e \in Entries :
                /\ \A f \in Fields :
                      /\ result.scores[side][e][f].t = "num"
                      /\ result.scores[side][e][f].v % 10 = 0
                /\ result.scores[side][e].notes = NotesOf(response.body, side, e)
          /\ result.meta = response.body.meta
          /\ result.winner = response.body.winner
          /\ result.rationale = response.body.rationale
          /\ result.analysis = response.body.analysis
    /\ pc = "repair_normalize" =>
          /\ result.scores = enforce_ranges(response.body).scores
          /\ enforce_ranges(result) = result
    /\ (Fatal /\ LastStage = "enforce_ranges") =>
          /\ result = response.body
          /\ enforce_ranges_raises(result)

\* 12.7, " 7 " and true become 12, 7 and 1; the notes stay, and a second
\* application changes nothing
C22_Witness ==
    /\ Sanitized
    /\ ScoresAreObjects(response.body)
    /\ response.body.scores.affirmative.speaker1 = Entry(Num(127), Str(" 7 "), BoolV(TRUE), Str(""))
    /\ result.scores.affirmative.speaker1 = Entry(IntV(12), IntV(7), IntV(1), Str(""))
    /\ result # response.body
    /\ enforce_ranges(result) = result

=============================================================================
